---- MODULE Spec2Model ----
(***************************************************************************)
(* Transition coordination engine of react-native-shared-transition:       *)
(* the SharedElementRegistry singleton (SharedElementRegistry.ts), the     *)
(* useSharedTransition controller hook (useSharedTransition.ts) and the    *)
(* SharedElementTransition overlay (SharedElementTransition.tsx).          *)
(***************************************************************************)
EXTENDS Integers, Sequences, FiniteSets, TLC

\* ------------------------------------------------------------------ bounds
\* Registrations held by the registry at one time, over all identifiers.
MaxRegs == 3
\* Date.now() returns a value of 1..MaxTime.
MaxTime == 2
\* progress.value is counted in steps of 1/ProgressOne; ProgressOne is 1.0.
ProgressOne == 3
\* runOnJS(updateState) calls that can be in flight at once.
MaxPending == 1
\* The position value is counted in steps of 1/Scale; Scale is 1.0. Frame
\* components and opacities are counted in the same steps.
Scale == 4
\* measure() calls of SharedElementTransition awaiting their results.
MaxInFlight == 2
\* nativeIds that generateNativeId hands out.
MaxNativeIds == 3
\* Entries held by the registry of useSharedTransition(id, config), over
\* all identifiers.
MaxEntries == 3
\* Listener calls of useSharedTransition(id, config) suspended at their await.
MaxAwaiting == 2

\* ------------------------------------------------------------- value sets
Ids == {"x", "y"}
\* A handle is a SharedElementNode, identified by its nativeId.
Handles == {"A", "B", "C"}
Times == 1..MaxTime
\* The clock values drawn while the controller is observed: the controller
\* reads only nodes.length, never a timestamp.
ControllerTimes == {1}
\* The nodes and clock values drawn while the notifications are observed.
NotifyHandles == {"A", "B"}
NotifyTimes == {1, 2}
\* Registry callbacks: an ordinary one, one whose body throws, and the
\* listener the useSharedTransition effect subscribes.
PlainCallbacks == {"ok", "bad"}
\* "drop" is a callback that calls back into the registry: told of 2 or more
\* nodes, it unregisters the newest of them. "overlay" is the callback the
\* SharedTransitionOverlay effect subscribes.
Callbacks == PlainCallbacks \cup {"ctl", "drop", "overlay"}
\* The identifier the controller is bound to.
ElementId == "x"

\* The two SharedElementTransition components of SharedElementTransition.tsx.
Impls == {"animated", "reanimated"}
\* SharedElementAnimation.
Animations == {"move", "fade", "fade-in", "fade-out"}
\* SharedElementLayout values that measureNode reports.
Layouts == [x : {0, 10}, y : {0, 20}, width : {10, 30}, height : {10, 50}]
\* position.value: from -1.0 to 2.0.
Positions == (0 - Scale)..(2 * Scale)
\* start.node and end.node of SharedElementTransition; NoNode is null.
MeasureNodes == {"A", "B"}
NoNode == "none"
\* measureData === null.
NoData == [start |-> NoNode, end |-> NoNode]

\* getTransitionPair returning null.
Null == [start |-> "null", end |-> "null"]
NoNote == [id |-> "-", nodes |-> <<>>]
NoOp == [op |-> "init", id |-> "-", node |-> "-", rt |-> FALSE, removed |-> 0]

VARIABLES
    elements,     \* Map<SharedElementId, RegisteredElement[]>; a missing key is <<>>
    subscribers,  \* Set<RegistryChangeCallback> in insertion order
    ctl,          \* the useSharedTransition instance bound to ElementId
    lastOp,       \* the call that was made last; for an unregisterElement, how
                  \* many elements it removed and whether it directly follows
                  \* the registerElement of the same identifier and node (rt)
    before,       \* getNodes(id) on entry to the last registerElement
    rtBefore,     \* getNodes(id) before the registerElement that the last
                  \* unregisterElement undoes
    delivered,    \* what each callback was invoked with during the last call
    order,        \* the callback invocations of the last call, in the order
                  \* they were made: the callback and the number of the
                  \* registry mutation it was told of
    opThrew,      \* the last call ended with an exception
    unsubscribed, \* the callbacks whose unsubscribe function has been called
                  \* and that have not been subscribed again
    overlay,      \* the SharedTransitionOverlay: activeIdsRef, transitions,
                  \* its one progress value and the animation on it
    view,         \* a SharedElementTransition instance: props, state, the
                  \* measure() calls in flight and the nodes it has hidden
    content,      \* a TransitionContent: props, position and what it renders
    shared,       \* the SharedElement instances and nativeIdCounter
    hook          \* the disabled-aware useSharedTransition(id, config) and
                  \* the registry it subscribes to

registryVars ==
    <<elements, subscribers, ctl, lastOp, before, rtBefore, delivered, order,
      opThrew, unsubscribed, overlay>>

vars == <<elements, subscribers, ctl, lastOp, before, rtBefore, delivered,
          order, opThrew, unsubscribed, overlay, view, content, shared, hook>>

\* ------------------------------------------------------------- sequences
InSeq(s, e) == \E i \in 1..Len(s) : s[i] = e

Without(s, e) ==
    LET Keep(c) == c # e
    IN SelectSeq(s, Keep)

\* Array.prototype.sort with (a, b) => a.timestamp - b.timestamp: stable.
InsertByTimestamp(s, e) ==
    LET k == Cardinality({i \in 1..Len(s) : s[i].timestamp <= e.timestamp})
    IN SubSeq(s, 1, k) \o <<e>> \o SubSeq(s, k + 1, Len(s))

RECURSIVE SortByTimestamp(_)
SortByTimestamp(s) ==
    IF s = <<>> THEN <<>>
    ELSE InsertByTimestamp(SortByTimestamp(SubSeq(s, 1, Len(s) - 1)), s[Len(s)])

\* ---------------------------------------------------------------- registry
getNodes(els, id) ==
    LET sorted == SortByTimestamp(els[id])
    IN [i \in 1..Len(sorted) |-> sorted[i].node]

getTransitionPairSecond(els, id) ==
    LET nodes == getNodes(els, id)
    IN IF Len(nodes) < 2 THEN Null
       ELSE [start |-> nodes[1], end |-> nodes[2]]

getTransitionPair(els, id) ==
    LET nodes == getNodes(els, id)
    IN IF Len(nodes) < 2 THEN Null
       ELSE [start |-> nodes[1], end |-> nodes[Len(nodes)]]

\* Whether the body of a callback throws.
Throws(cb) == cb = "bad"

Quiet == [delivered |-> [cb \in Callbacks |-> NoNote], threw |-> FALSE]

\* forEach without the try/catch: the first exception ends the loop and
\* leaves the call.
notifySubscribersNoCatch(els, subs, id) ==
    LET note == [id |-> id, nodes |-> getNodes(els, id)]
        bad == {i \in 1..Len(subs) : Throws(subs[i])}
        stop == IF bad = {} THEN Len(subs)
                ELSE CHOOSE i \in bad : \A j \in bad : i <= j
    IN [delivered |-> [cb \in Callbacks |->
                         IF \E i \in 1..stop : subs[i] = cb THEN note ELSE NoNote],
        threw |-> bad # {}]

notifySubscribers(els, subs, id) ==
    LET note == [id |-> id, nodes |-> getNodes(els, id)]
    IN [delivered |-> [cb \in Callbacks |->
                         IF InSeq(subs, cb) THEN note ELSE NoNote],
        threw |-> FALSE]

\* The subscribers are told before the new element is stored.
registerElementNotifyFirst(els, subs, id, node, ts) ==
    LET existing == Append(els[id], [node |-> node, timestamp |-> ts])
    IN [elements |-> [els EXCEPT ![id] = existing],
        notified |-> notifySubscribers(els, subs, id)]

registerElement(els, subs, id, node, ts) ==
    LET existing == Append(els[id], [node |-> node, timestamp |-> ts])
        stored == [els EXCEPT ![id] = existing]
    IN [elements |-> stored,
        notified |-> notifySubscribers(stored, subs, id)]

\* An unsubscribe function that deletes nothing.
unsubscribeNothing(subs, cb) == subs

\* The function subscribe(cb) returns: this.subscribers.delete(callback).
unsubscribe(subs, cb) == Without(subs, cb)

\* clear() that tells the subscribers of the emptied identifier.
clearNotifying(els, subs) ==
    LET stored == [i \in Ids |-> <<>>]
    IN [elements |-> stored,
        notified |-> notifySubscribers(stored, subs, ElementId)]

\* clear(): this.elements.clear(), and no notification.
clear(els, subs) ==
    [elements |-> [i \in Ids |-> <<>>], notified |-> Quiet]

\* Every element of the identifier is dropped, whatever its node.
unregisterElementWholeId(els, subs, id, node) ==
    IF els[id] = <<>> THEN [elements |-> els, notified |-> Quiet]
    ELSE LET stored == [els EXCEPT ![id] = <<>>]
         IN [elements |-> stored,
             notified |-> notifySubscribers(stored, subs, id)]

\* Removing the last element deletes the key and returns without notifying.
unregisterElementSilentDelete(els, subs, id, node) ==
    IF els[id] = <<>> THEN [elements |-> els, notified |-> Quiet]
    ELSE LET Keep(e) == e.node # node
             filtered == SelectSeq(els[id], Keep)
             stored == [els EXCEPT ![id] = filtered]
         IN [elements |-> stored,
             notified |-> IF filtered = <<>> THEN Quiet
                          ELSE notifySubscribers(stored, subs, id)]

unregisterElement(els, subs, id, node) ==
    IF els[id] = <<>> THEN [elements |-> els, notified |-> Quiet]
    ELSE LET Keep(e) == e.node # node
             filtered == SelectSeq(els[id], Keep)
             stored == [els EXCEPT ![id] = filtered]
         IN [elements |-> stored,
             notified |-> notifySubscribers(stored, subs, id)]

RECURSIVE SumLen(_, _)
SumLen(els, ids) ==
    IF ids = {} THEN 0
    ELSE LET i == CHOOSE j \in ids : TRUE
         IN Len(els[i]) + SumLen(els, ids \ {i})

TotalRegs(els) == SumLen(els, Ids)

\* -------------------------------------------------------------- controller
\* state: the value the last setState call asked for; rstate: the value of
\* `state` in the closures of the last committed render (startTransition,
\* start and the subscribed listener); rprogress: progress.value as that
\* render read it for the returned object; anim: a withTiming animation of
\* progress is in flight; animFrom: the value of progress that animation
\* started from (0 when none is in flight); pending:
\* runOnJS(updateState)('completed') calls not yet run on the JS thread.
States == {"idle", "preparing", "running", "completed", "error"}

InitialController ==
    [state |-> "idle", rstate |-> "idle", progress |-> 0, rprogress |-> 0,
     anim |-> FALSE,
     animFrom |-> 0, pending |-> 0, autoStarted |-> FALSE, error |-> FALSE]

completeTransition(c) ==
    [c EXCEPT !.progress = ProgressOne, !.anim = FALSE, !.animFrom = 0,
              !.state = "completed"]

startTransition(c, els) ==
    IF c.rstate = "running" THEN c
    ELSE IF getTransitionPair(els, ElementId) = Null
         THEN [c EXCEPT !.state = "error", !.error = TRUE]
         ELSE [c EXCEPT !.state = "running", !.error = FALSE, !.anim = TRUE,
                        !.animFrom = c.progress]

\* The listener without the autoStartedRef guard of its first branch.
listenerNoFlag(c, els, changedId, nodes) ==
    IF changedId # ElementId THEN c
    ELSE LET c1 == IF Len(nodes) >= 2 /\ c.rstate = "idle"
                   THEN startTransition([c EXCEPT !.autoStarted = TRUE], els)
                   ELSE c
         IN IF Len(nodes) < 2 /\ c1.autoStarted /\ c1.rstate = "running"
            THEN completeTransition(c1)
            ELSE c1

\* The listener without `if (changedId !== elementId) return`.
listenerAnyId(c, els, changedId, nodes) ==
    LET c1 == IF Len(nodes) >= 2 /\ ~c.autoStarted /\ c.rstate = "idle"
              THEN startTransition([c EXCEPT !.autoStarted = TRUE], els)
              ELSE c
    IN IF Len(nodes) < 2 /\ c1.autoStarted /\ c1.rstate = "running"
       THEN completeTransition(c1)
       ELSE c1

\* The callback the effect subscribes to the registry.
listener(c, els, changedId, nodes) ==
    IF changedId # ElementId THEN c
    ELSE LET c1 == IF Len(nodes) >= 2 /\ ~c.autoStarted /\ c.rstate = "idle"
                   THEN startTransition([c EXCEPT !.autoStarted = TRUE], els)
                   ELSE c
         IN IF Len(nodes) < 2 /\ c1.autoStarted /\ c1.rstate = "running"
            THEN completeTransition(c1)
            ELSE c1

reset(c) ==
    [c EXCEPT !.progress = 0, !.anim = FALSE, !.animFrom = 0,
              !.state = "idle", !.error = FALSE, !.autoStarted = FALSE]

start(c, els) == startTransition([c EXCEPT !.autoStarted = TRUE], els)

\* updateState('completed'), run on the JS thread.
updateState(c) == [c EXCEPT !.state = "completed", !.pending = @ - 1]

\* ------------------------------------------------------- TransitionContent
\* Math.floor of a position, in steps of 1/Scale.
floor(p) == Scale * (p \div Scale)

\* Math.max(0, Math.min(1, v)).
clamp(v) == IF v < 0 THEN 0 ELSE IF v > Scale THEN Scale ELSE v

\* interpolate(v, [0, 1], [a, b]), which extends beyond the input range.
interpolate(v, a, b) == a * Scale + v * (b - a)

\* The value the frame is interpolated at: the Reanimated component takes
\* the fractional part of position.value and clamps it, the Animated one
\* hands the position to interpolate as it is.
frameProgress(impl, p) ==
    IF impl = "reanimated" THEN clamp(p - floor(p)) ELSE p

containerStyle(impl, p, startLayout, endLayout) ==
    LET v == frameProgress(impl, p)
    IN [x |-> interpolate(v, startLayout.x, endLayout.x),
        y |-> interpolate(v, startLayout.y, endLayout.y),
        width |-> interpolate(v, startLayout.width, endLayout.width),
        height |-> interpolate(v, startLayout.height, endLayout.height)]

startOpacity(impl, animation, p) ==
    IF impl = "reanimated"
    THEN IF animation = "fade-in" THEN 0 ELSE interpolate(p - floor(p), 1, 0)
    ELSE interpolate(p, IF animation = "fade-in" THEN 0 ELSE 1, 0)

endOpacity(impl, animation, p) ==
    IF impl = "reanimated"
    THEN IF animation = "fade-out" THEN 0 ELSE interpolate(p - floor(p), 0, 1)
    ELSE interpolate(p, 0, IF animation = "fade-out" THEN 0 ELSE 1)

\* The snapshot images renderContent returns.
renderContent(animation) ==
    IF animation = "fade" THEN {"start", "end"}
    ELSE IF animation = "fade-in" THEN {"end"}
    ELSE {"start"}

\* A TransitionContent with its props and what it renders at position p.
Rendered(impl, animation, startLayout, endLayout, p) ==
    [impl |-> impl, animation |-> animation,
     startLayout |-> startLayout, endLayout |-> endLayout, position |-> p,
     frame |-> containerStyle(impl, p, startLayout, endLayout),
     startOpacity |-> startOpacity(impl, animation, p),
     endOpacity |-> endOpacity(impl, animation, p),
     layers |-> renderContent(animation)]

NoContent ==
    LET l == [x |-> 0, y |-> 0, width |-> 10, height |-> 10]
    IN Rendered("reanimated", "move", l, l, 0)

\* --------------------------------------------------- SharedElementTransition
\* nitro, turbo: the Nitro module and the TurboModule can be loaded;
\* moduleType: the bridge's cached probe result, "null" before the first
\* bridge call; loads: the tryLoadNitroModule and tryLoadTurboModule calls
\* made so far; throws: the onMeasure prop throws;
\* inflight: the Promise.all of each measure() call not settled yet, with
\* the nodes it measures and the `cancelled` of its effect; onMeasure: what
\* the last step called the onMeasure prop with; last: the last step;
\* obtained: captureSnapshot has handed snapshots to this instance;
\* cleanups: the calls of the bridge's cleanup() made for this instance.
InitialView ==
    [mounted |-> FALSE, startNode |-> NoNode, endNode |-> NoNode,
     nitro |-> TRUE, turbo |-> FALSE, moduleType |-> "null", loads |-> 0,
     throws |-> FALSE,
     measureData |-> NoData, isMeasuring |-> TRUE, error |-> FALSE,
     hidden |-> {}, inflight |-> <<>>, onMeasure |-> "-",
     obtained |-> FALSE, cleanups |-> 0,
     last |-> [op |-> "init", cancelled |-> FALSE]]

Step(v, op, cancelled) ==
    [v EXCEPT !.last = [op |-> op, cancelled |-> cancelled], !.onMeasure = "-"]

\* The probe of the bridge: Nitro first, then the TurboModule.
probe(v) ==
    IF v.nitro THEN [v EXCEPT !.moduleType = "nitro", !.loads = @ + 1]
    ELSE IF v.turbo THEN [v EXCEPT !.moduleType = "turbo", !.loads = @ + 2]
    ELSE [v EXCEPT !.moduleType = "none", !.loads = @ + 2]

\* initializeModule without `if (moduleType !== null) return`.
initializeModuleNoCache(v) == probe(v)

\* initializeModule(), which every function of the bridge calls first.
initializeModule(v) == IF v.moduleType # "null" THEN v ELSE probe(v)

\* measure(), up to its await.
measure(v) ==
    IF v.startNode = NoNode \/ v.endNode = NoNode
    THEN [v EXCEPT !.measureData = NoData, !.isMeasuring = FALSE,
                   !.error = FALSE]
    ELSE LET v1 == initializeModule(v)
         IN IF v1.moduleType = "none"
            THEN [v1 EXCEPT !.measureData = NoData, !.isMeasuring = FALSE,
                            !.error = TRUE]
            ELSE [v1 EXCEPT !.inflight = Append(@, [start |-> v.startNode,
                                                    end |-> v.endNode,
                                                    cancelled |-> FALSE])]

\* setNodeHidden(nativeId, hidden) for each node of ns.
setNodeHidden(v, ns, hidden) ==
    IF ns = {} THEN v
    ELSE LET v1 == initializeModule(v)
         IN IF v1.moduleType = "none" THEN v1
            ELSE [v1 EXCEPT !.hidden = IF hidden THEN @ \cup ns ELSE @ \ ns]

\* cancelled = true, seen by every measure() call of the effects so far.
Cancelled(v) ==
    [v EXCEPT !.inflight = [i \in DOMAIN @ |-> [@[i] EXCEPT !.cancelled = TRUE]]]

\* The function the effect returns, without its setNodeHidden(..., false).
cleanupNoShow(v) == Cancelled(v)

\* The function the effect returns.
cleanup(v) ==
    setNodeHidden(Cancelled(v), {v.startNode, v.endNode} \ {NoNode}, FALSE)

\* measure() after its await, without the `if (cancelled) return`.
resolvedNoCancel(v, m) ==
    LET v1 == [v EXCEPT !.measureData = [start |-> m.start, end |-> m.end],
                        !.isMeasuring = FALSE, !.error = FALSE,
                        !.onMeasure = "data"]
    IN IF v.throws
       THEN [v1 EXCEPT !.measureData = NoData, !.error = TRUE,
                       !.onMeasure = "null"]
       ELSE setNodeHidden(v1, {m.start, m.end}, TRUE)

\* measure() after its await, when Promise.all has resolved. An onMeasure
\* that throws sends the call into its catch block before a node is hidden.
resolved(v, m) ==
    IF m.cancelled THEN v
    ELSE LET v1 == [v EXCEPT !.measureData = [start |-> m.start, end |-> m.end],
                             !.isMeasuring = FALSE, !.error = FALSE,
                             !.onMeasure = "data"]
         IN IF v.throws
            THEN [v1 EXCEPT !.measureData = NoData, !.error = TRUE,
                            !.onMeasure = "null"]
            ELSE setNodeHidden(v1, {m.start, m.end}, TRUE)

\* The catch block of measure(), when Promise.all has rejected.
rejected(v, m) ==
    IF m.cancelled THEN v
    ELSE [v EXCEPT !.measureData = NoData, !.isMeasuring = FALSE,
                   !.error = TRUE, !.onMeasure = "null"]

\* The render: TransitionContent is returned unless state.isMeasuring or
\* state.measureData is null.
rendersOverlay(v) == v.mounted /\ ~v.isMeasuring /\ v.measureData # NoData

\* A measure() call of the current effect has not settled yet.
Measuring(v) == \E i \in DOMAIN v.inflight : ~v.inflight[i].cancelled

RemoveAt(s, i) == SubSeq(s, 1, i - 1) \o SubSeq(s, i + 1, Len(s))

\* ------------------------------------------------------------ SharedElement
\* The mounted SharedElement components.
Instances == {"p", "q"}

\* An instance: mounted (its effect has run), unmounted, or changing (the
\* cleanup of its effect has run and the effect is about to run again).
\* id, node: the props the next or the last effect run uses; prevId,
\* prevNode: what its last cleanup unregistered for good.
NoInstance ==
    [phase |-> "unmounted", id |-> "-", node |-> "-",
     prevId |-> "-", prevNode |-> "-"]

InitialShared == [counter |-> 0, inst |-> [c \in Instances |-> NoInstance]]

\* generateNativeId that leaves the counter out of the nativeId.
generateNativeIdNoCounter(transitionId, counter) ==
    "shared-element-" \o transitionId

\* generateNativeId, given the incremented nativeIdCounter.
generateNativeId(transitionId, counter) ==
    "shared-element-" \o transitionId \o "-" \o ToString(counter)

\* ------------------------------------------------- disabled-aware controller
\* useSharedTransition(id, config) and the registry it subscribes to.
\* The timestamps its registry records.
HookTimes == {1, 2}

\* disabled: config.disabled at the last render; alwaysDisabled: it has
\* been true at every render; native: isNativeModuleAvailable();
\* subscribed: the subscription effect holds a listener; entries: the
\* registry's Map, a timestamp for each entry; awaiting: listener calls
\* suspended at await prepareTransition; pending: runOnJS(updateState)
\* calls in flight; last: the last call made; mounted: the SharedElement
\* components of this registry, each with the identifier it is mounted
\* under, its timestampRef (Date.now() at its first render) and the
\* Date.now() that register() read for its entry.
NotMounted == [id |-> "-", timestampRef |-> 0, registeredAt |-> 0]

HookOf(disabled, native) ==
    [disabled |-> disabled, alwaysDisabled |-> disabled, native |-> native,
     mounted |-> [c \in Instances |-> NotMounted],
     subscribed |-> ~disabled, entries |-> [i \in Ids |-> <<>>],
     state |-> "idle", progress |-> 0, anim |-> FALSE, pending |-> 0,
     hasTransitioned |-> FALSE, awaiting |-> 0, last |-> "init"]

InitialHook == HookOf(FALSE, FALSE)

\* start of useSharedTransition(id, config) without its disabled guard.
hookStartAlways(h, disabled) ==
    [h EXCEPT !.state = "transitioning", !.hasTransitioned = TRUE,
              !.anim = TRUE]

\* start of useSharedTransition(id, config), as created by a render that
\* saw the given value of disabled.
hookStart(h, disabled) ==
    IF disabled THEN h
    ELSE [h EXCEPT !.state = "transitioning", !.hasTransitioned = TRUE,
                   !.anim = TRUE]

\* reset of useSharedTransition(id, config).
hookReset(h) ==
    [h EXCEPT !.progress = 0, !.anim = FALSE, !.state = "idle",
              !.hasTransitioned = FALSE]

\* The listener of the subscription effect up to its first await (or to
\* its end, when it does not await). A subscribed listener was created by
\* a render that saw disabled = false, and so was the start it calls.
hookListener(h, changedId) ==
    IF changedId # ElementId THEN h
    ELSE IF h.hasTransitioned THEN h
    ELSE IF Len(h.entries[ElementId]) < 2 THEN h
    ELSE IF h.native THEN [h EXCEPT !.awaiting = @ + 1]
    ELSE hookStart(h, FALSE)

\* register of the hook's registry, its notification included.
hookRegister(h, id, ts) ==
    LET h1 == [h EXCEPT !.entries[id] = Append(@, ts)]
    IN IF Len(h1.entries[id]) > 1 /\ h1.subscribed
       THEN hookListener(h1, id)
       ELSE h1

\* unregister of the hook's registry.
hookUnregister(h, id, ts) ==
    [h EXCEPT !.entries[id] = SelectSeq(@, LAMBDA t : t # ts)]

HookEntries(h) == Len(h.entries["x"]) + Len(h.entries["y"])

\* ---------------------------------------------------- SharedTransitionOverlay
\* active: activeIdsRef.current; transitions: the transitions state;
\* progress: the one shared value every transition is rendered at;
\* anim: the elementId in the closure of the callback of the withTiming(1)
\* that is running, "-" when none is; pending: the elementIds of the
\* runOnJS(cleanupTransition) calls in flight.
InitialOverlay ==
    [active |-> {}, transitions |-> <<>>, progress |-> 0, anim |-> "-",
     pending |-> {}]

\* The callback SharedTransitionOverlay subscribes. Assigning progress.value
\* cancels the animation that is running: its callback is called with
\* finished = false and does nothing.
overlayListener(o, elementId, nodes) ==
    IF Len(nodes) < 2 THEN o
    ELSE IF elementId \in o.active THEN o
    ELSE [o EXCEPT !.active = @ \cup {elementId},
                   !.transitions = Append(@, [elementId |-> elementId,
                                              startNode |-> nodes[1],
                                              endNode |-> nodes[Len(nodes)]]),
                   !.progress = 0,
                   !.anim = elementId]

cleanupTransition(o, elementId) ==
    [o EXCEPT !.transitions = SelectSeq(@, LAMBDA t : t.elementId # elementId),
              !.active = @ \ {elementId}]

\* ------------------------------------------------------------ the callbacks
\* subscribers.forEach((callback) => callback(id, nodes)): the callbacks run
\* one after the other with the nodes computed before the loop; each reads
\* and writes the registry and the controller as the callbacks before it
\* left them.
RECURSIVE forEach(_, _, _, _, _)

\* The body of callback cb, called with note for mutation m. st holds the
\* registry content, the controller, the invocations made and the number
\* of registry mutations made so far.
invoke(cb, note, m, all, st) ==
    LET st1 == [st EXCEPT !.log = Append(@, [cb |-> cb, m |-> m])]
    IN IF cb = "ctl"
       THEN [st1 EXCEPT !.ctl = listener(st1.ctl, st1.elements, note.id,
                                         note.nodes)]
       ELSE IF cb = "overlay"
       THEN [st1 EXCEPT !.overlay = overlayListener(st1.overlay, note.id,
                                                    note.nodes)]
       ELSE IF cb = "drop" /\ Len(note.nodes) >= 2
       THEN LET r == unregisterElement(st1.elements, all, note.id,
                                       note.nodes[Len(note.nodes)])
                k == st1.muts + 1
            IN forEach(all, all, r.notified, k,
                       [st1 EXCEPT !.elements = r.elements, !.muts = k])
       ELSE st1

forEach(rest, all, n, m, st) ==
    IF rest = <<>> THEN st
    ELSE LET note == n.delivered[Head(rest)]
             after == IF note = NoNote THEN st
                      ELSE invoke(Head(rest), note, m, all, st)
         IN forEach(Tail(rest), all, n, m, after)

\* ------------------------------------------------------------------ actions
\* r: what registerElement or unregisterElement stored and whom it notifies.
Notified(r) ==
    LET run == forEach(subscribers, subscribers, r.notified, 1,
                       [elements |-> r.elements, ctl |-> ctl,
                        overlay |-> overlay, log |-> <<>>, muts |-> 1])
    IN /\ elements' = run.elements
       /\ ctl' = run.ctl
       /\ overlay' = run.overlay
       /\ order' = run.log
       /\ delivered' = r.notified.delivered
       /\ opThrew' = r.notified.threw

Silent(op) ==
    /\ lastOp' = [NoOp EXCEPT !.op = op]
    /\ before' = <<>>
    /\ rtBefore' = <<>>
    /\ delivered' = Quiet.delivered
    /\ order' = <<>>
    /\ opThrew' = FALSE
    /\ UNCHANGED <<view, content, shared, hook>>

NoHistory(op) == Silent(op) /\ UNCHANGED <<unsubscribed, overlay>>

\* A call of registerElement and what the model records of it.
registerCall(id, node, ts) ==
    /\ TotalRegs(elements) < MaxRegs
    /\ Notified(registerElement(elements, subscribers, id, node, ts))
    /\ lastOp' = [NoOp EXCEPT !.op = "register", !.id = id, !.node = node]
    /\ before' = getNodes(elements, id)
    /\ rtBefore' = <<>>
    /\ UNCHANGED <<subscribers, unsubscribed>>

RegisterElement(id, node, ts) ==
    /\ registerCall(id, node, ts)
    /\ UNCHANGED <<view, content, shared, hook>>

\* The effect of a mounting SharedElement: its node carries a nativeId that
\* generateNativeId gave to no other node, so it is not registered yet.
MountElement(id, node, ts) ==
    /\ ~InSeq(getNodes(elements, id), node)
    /\ RegisterElement(id, node, ts)

\* A call of unregisterElement and what the model records of it.
unregisterCall(id, node) ==
    /\ Notified(unregisterElement(elements, subscribers, id, node))
    /\ LET rt == lastOp.op = "register" /\ lastOp.id = id /\ lastOp.node = node
       IN /\ lastOp' = [op |-> "unregister", id |-> id, node |-> node, rt |-> rt,
                        removed |-> Len(elements[id]) - Len(elements'[id])]
          /\ rtBefore' = IF rt THEN before ELSE <<>>
    /\ before' = <<>>
    /\ UNCHANGED <<subscribers, unsubscribed>>

UnregisterElement(id, node) ==
    /\ unregisterCall(id, node)
    /\ UNCHANGED <<view, content, shared, hook>>

\* A SharedElement mounts: useMemo generates its nativeId and the effect
\* registers its node.
ElementMount(c, id, ts) ==
    /\ shared.inst[c].phase = "unmounted"
    /\ shared.counter < MaxNativeIds
    /\ LET n == shared.counter + 1
           node == generateNativeId(id, n)
       IN /\ registerCall(id, node, ts)
          /\ shared' = [counter |-> n,
                        inst |-> [shared.inst EXCEPT ![c] =
                                     [@ EXCEPT !.phase = "mounted",
                                               !.id = id, !.node = node]]]
    /\ UNCHANGED <<view, content, hook>>

\* A SharedElement unmounts: the cleanup of its effect runs.
ElementUnmount(c) ==
    /\ shared.inst[c].phase = "mounted"
    /\ unregisterCall(shared.inst[c].id, shared.inst[c].node)
    /\ shared' = [shared EXCEPT !.inst[c] =
                      [phase |-> "unmounted", id |-> "-", node |-> "-",
                       prevId |-> shared.inst[c].id,
                       prevNode |-> shared.inst[c].node]]
    /\ UNCHANGED <<view, content, hook>>

\* The id prop changes: the render generates a new nativeId and the cleanup
\* of the effect unregisters the old node.
ElementChangeId(c, id) ==
    /\ shared.inst[c].phase = "mounted"
    /\ id # shared.inst[c].id
    /\ shared.counter < MaxNativeIds
    /\ unregisterCall(shared.inst[c].id, shared.inst[c].node)
    /\ LET n == shared.counter + 1
       IN shared' = [counter |-> n,
                     inst |-> [shared.inst EXCEPT ![c] =
                                  [phase |-> "changing", id |-> id,
                                   node |-> generateNativeId(id, n),
                                   prevId |-> shared.inst[c].id,
                                   prevNode |-> shared.inst[c].node]]]
    /\ UNCHANGED <<view, content, hook>>

\* The onNode prop changes: the cleanup of the effect unregisters the node
\* and the effect will register it again.
ElementChangeOnNode(c) ==
    /\ shared.inst[c].phase = "mounted"
    /\ unregisterCall(shared.inst[c].id, shared.inst[c].node)
    /\ shared' = [shared EXCEPT !.inst[c].phase = "changing"]
    /\ UNCHANGED <<view, content, hook>>

\* The effect runs again after its cleanup.
ElementCommit(c, ts) ==
    /\ shared.inst[c].phase = "changing"
    /\ registerCall(shared.inst[c].id, shared.inst[c].node, ts)
    /\ shared' = [shared EXCEPT !.inst[c].phase = "mounted"]
    /\ UNCHANGED <<view, content, hook>>

HookStep(h, op) ==
    /\ hook' = [h EXCEPT !.last = op]
    /\ UNCHANGED <<registryVars, view, content, shared>>

\* An element registers with the hook's registry.
HookRegister(id, ts) ==
    /\ HookEntries(hook) < MaxEntries
    /\ hook.awaiting < MaxAwaiting
    /\ HookStep(hookRegister(hook, id, ts), "register")

HookUnregister(id, ts) ==
    /\ hook.entries[id] # <<>>
    /\ HookStep(hookUnregister(hook, id, ts), "unregister")

\* prepareTransition settles, by resolving or by rejecting: the suspended
\* listener call goes on to start().
HookSettle ==
    /\ hook.awaiting > 0
    /\ HookStep(hookStart([hook EXCEPT !.awaiting = @ - 1], FALSE), "settle")

\* The component calls the start that the last render returned.
HookStart ==
    /\ hook.awaiting <= MaxAwaiting
    /\ HookStep(hookStart(hook, hook.disabled), "start")

HookReset ==
    /\ hook.last # "reset"
    /\ HookStep(hookReset(hook), "reset")

\* A frame of withTiming(1).
HookTick ==
    /\ hook.anim
    /\ hook.progress < ProgressOne
    /\ HookStep([hook EXCEPT !.progress = @ + 1], "tick")

\* withTiming(1) finishes: its callback posts updateState('completed').
HookFinish ==
    /\ hook.anim
    /\ hook.progress = ProgressOne
    /\ hook.pending < MaxPending
    /\ HookStep([hook EXCEPT !.anim = FALSE, !.pending = @ + 1], "finish")

\* updateState('completed') runs on the JS thread.
HookDeliver ==
    /\ hook.pending > 0
    /\ HookStep([hook EXCEPT !.pending = @ - 1, !.state = "completed"],
                "deliver")

\* The component renders with another value of config.disabled: the
\* subscription effect is cleaned up and runs again.
HookSetDisabled(b) ==
    /\ b # hook.disabled
    /\ HookStep([hook EXCEPT !.disabled = b, !.subscribed = ~b,
                             !.alwaysDisabled = @ /\ b], "render")

\* A component that calls useSharedTransition(ElementId) mounts: its effect
\* subscribes the listener.
MountController ==
    /\ ~InSeq(subscribers, "ctl")
    /\ subscribers' = Append(subscribers, "ctl")
    /\ ctl' = InitialController
    /\ NoHistory("mountController")
    /\ UNCHANGED elements

\* A frame of the overlay's withTiming(1).
OverlayTick ==
    /\ overlay.anim # "-"
    /\ overlay.progress < ProgressOne
    /\ overlay' = [overlay EXCEPT !.progress = @ + 1]
    /\ Silent("overlayTick")
    /\ UNCHANGED <<elements, subscribers, ctl, unsubscribed>>

\* The overlay's withTiming(1) finishes: its callback posts
\* cleanupTransition(elementId).
OverlayFinish ==
    /\ overlay.anim # "-"
    /\ overlay.progress = ProgressOne
    /\ overlay' = [overlay EXCEPT !.anim = "-", !.pending = @ \cup {overlay.anim}]
    /\ Silent("overlayFinish")
    /\ UNCHANGED <<elements, subscribers, ctl, unsubscribed>>

\* cleanupTransition(elementId) runs on the JS thread.
OverlayCleanup(elementId) ==
    /\ elementId \in overlay.pending
    /\ overlay' = [cleanupTransition(overlay, elementId) EXCEPT
                       !.pending = @ \ {elementId}]
    /\ Silent("overlayCleanup")
    /\ UNCHANGED <<elements, subscribers, ctl, unsubscribed>>

\* A timestamp-keyed SharedElement mounts: it renders at clock reading
\* rendered and its effect registers at clock reading registered.
TimedMount(c, id, rendered, registered) ==
    /\ hook.mounted[c] = NotMounted
    /\ rendered <= registered
    /\ HookEntries(hook) < MaxEntries
    /\ hook.awaiting < MaxAwaiting
    /\ HookStep(hookRegister([hook EXCEPT !.mounted[c] =
                                 [id |-> id, timestampRef |-> rendered,
                                  registeredAt |-> registered]],
                             id, registered),
                "mount")

\* It unmounts: the cleanup of its effect unregisters timestampRef.current.
TimedUnmount(c) ==
    /\ hook.mounted[c] # NotMounted
    /\ HookStep(hookUnregister([hook EXCEPT !.mounted[c] = NotMounted],
                               hook.mounted[c].id,
                               hook.mounted[c].timestampRef),
                "unmount")

\* A mounted SharedElement renders with another onNode: in one commit the
\* cleanup of its effect unregisters the node and the effect registers it
\* again. before is getNodes(id) on entry.
ElementRerender(c, ts) ==
    /\ shared.inst[c].phase = "mounted"
    /\ LET id == shared.inst[c].id
           node == shared.inst[c].node
           r1 == unregisterElement(elements, subscribers, id, node)
           run1 == forEach(subscribers, subscribers, r1.notified, 1,
                           [elements |-> r1.elements, ctl |-> ctl,
                            overlay |-> overlay, log |-> <<>>, muts |-> 1])
           r2 == registerElement(run1.elements, subscribers, id, node, ts)
           run2 == forEach(subscribers, subscribers, r2.notified, 2,
                           [run1 EXCEPT !.elements = r2.elements, !.muts = 2])
       IN /\ elements' = run2.elements
          /\ ctl' = run2.ctl
          /\ overlay' = run2.overlay
          /\ order' = run2.log
          /\ delivered' = r2.notified.delivered
          /\ opThrew' = (r1.notified.threw \/ r2.notified.threw)
          /\ lastOp' = [NoOp EXCEPT !.op = "rerender", !.id = id, !.node = node]
          /\ before' = getNodes(elements, id)
    /\ rtBefore' = <<>>
    /\ UNCHANGED <<subscribers, unsubscribed, view, content, shared, hook>>

\* A call of clear(); lastOp.removed is the number of registrations it drops.
Clear ==
    /\ LET r == clear(elements, subscribers)
       IN /\ elements' = r.elements
          /\ delivered' = r.notified.delivered
          /\ opThrew' = r.notified.threw
    /\ lastOp' = [NoOp EXCEPT !.op = "clear", !.removed = TotalRegs(elements)]
    /\ before' = <<>>
    /\ rtBefore' = <<>>
    /\ order' = <<>>
    /\ UNCHANGED <<subscribers, ctl, unsubscribed, overlay, view, content,
                   shared, hook>>

Subscribe(cb) ==
    /\ subscribers' = IF InSeq(subscribers, cb) THEN subscribers
                      ELSE Append(subscribers, cb)
    /\ unsubscribed' = unsubscribed \ {cb}
    /\ Silent("subscribe")
    /\ UNCHANGED <<elements, ctl, overlay>>

Unsubscribe(cb) ==
    /\ subscribers' = unsubscribe(subscribers, cb)
    /\ unsubscribed' = IF InSeq(subscribers, cb) THEN unsubscribed \cup {cb}
                       ELSE unsubscribed
    /\ Silent("unsubscribe")
    /\ UNCHANGED <<elements, ctl, overlay>>

\* React commits the pending state: the hook body runs again, and the effect
\* (deps: state, startTransition) unsubscribes the old listener and
\* subscribes the new one.
Render ==
    /\ ctl.rstate # ctl.state
    /\ ctl' = [ctl EXCEPT !.rstate = ctl.state, !.rprogress = ctl.progress]
    /\ subscribers' = IF InSeq(subscribers, "ctl")
                      THEN Append(Without(subscribers, "ctl"), "ctl")
                      ELSE subscribers
    /\ NoHistory("render")
    /\ UNCHANGED elements

Start ==
    /\ ctl' = start(ctl, elements)
    /\ NoHistory("start")
    /\ UNCHANGED <<elements, subscribers>>

Reset ==
    /\ ctl' = reset(ctl)
    /\ NoHistory("reset")
    /\ UNCHANGED <<elements, subscribers>>

\* The animation scheduler advances progress on the UI thread.
Tick ==
    /\ ctl.anim
    /\ ctl.progress + 1 < ProgressOne
    /\ ctl' = [ctl EXCEPT !.progress = @ + 1]
    /\ NoHistory("tick")
    /\ UNCHANGED <<elements, subscribers>>

\* withTiming reaches 1 and calls its callback with finished = true.
AnimFinish ==
    /\ ctl.anim
    /\ ctl.pending < MaxPending
    /\ ctl' = [ctl EXCEPT !.progress = ProgressOne, !.anim = FALSE,
                          !.animFrom = 0, !.pending = @ + 1]
    /\ NoHistory("finish")
    /\ UNCHANGED <<elements, subscribers>>

DeliverCompleted ==
    /\ ctl.pending > 0
    /\ ctl' = updateState(ctl)
    /\ NoHistory("completed")
    /\ UNCHANGED <<elements, subscribers>>

\* position.value changes and the worklets of TransitionContent run again.
SetPosition(p) ==
    /\ p # content.position
    /\ content' = Rendered(content.impl, content.animation,
                           content.startLayout, content.endLayout, p)
    /\ UNCHANGED <<registryVars, view, shared, hook>>

\* The animation prop changes.
SetAnimation(a) ==
    /\ a # content.animation
    /\ content' = Rendered(content.impl, a, content.startLayout,
                           content.endLayout, content.position)
    /\ UNCHANGED <<registryVars, view, shared, hook>>

\* SharedElementTransition mounts with start.node = s and end.node = e.
Mount(s, e) ==
    /\ ~view.mounted
    /\ Len(view.inflight) < MaxInFlight
    /\ view' = measure([Step(view, "mount", FALSE) EXCEPT
                            !.mounted = TRUE, !.startNode = s, !.endNode = e,
                            !.measureData = NoData, !.isMeasuring = TRUE,
                            !.error = FALSE])
    /\ UNCHANGED <<registryVars, content, shared, hook>>

\* The screen renders a SharedElementTransition over the transition pair of
\* the controller's identifier.
ShowTransition ==
    LET pair == getTransitionPair(elements, ElementId)
    IN /\ pair # Null
       /\ Mount(pair.start, pair.end)

\* start.node or end.node changes: the effect is cleaned up and runs again.
ChangeNodes(s, e) ==
    /\ view.mounted
    /\ <<s, e>> # <<view.startNode, view.endNode>>
    /\ Len(view.inflight) < MaxInFlight
    /\ view' = measure([cleanup(Step(view, "change", FALSE)) EXCEPT
                            !.startNode = s, !.endNode = e])
    /\ UNCHANGED <<registryVars, content, shared, hook>>

\* The onMeasure prop changes, to a function that throws (t) or does not:
\* it is a dependency of the effect.
ChangeOnMeasure(t) ==
    /\ view.mounted
    /\ Len(view.inflight) < MaxInFlight
    /\ view' = measure([cleanup(Step(view, "onMeasure", FALSE)) EXCEPT
                            !.throws = t])
    /\ UNCHANGED <<registryVars, content, shared, hook>>

Unmount ==
    /\ view.mounted
    /\ view' = [cleanup(Step(view, "unmount", FALSE)) EXCEPT !.mounted = FALSE]
    /\ UNCHANGED <<registryVars, content, shared, hook>>

\* The Promise.all of the i-th measure() call in flight resolves.
Resolve(i) ==
    /\ i \in DOMAIN view.inflight
    /\ LET m == view.inflight[i]
           v == [view EXCEPT !.inflight = RemoveAt(@, i), !.obtained = TRUE]
       IN view' = resolved(Step(v, "resolve", m.cancelled), m)
    /\ UNCHANGED <<registryVars, content, shared, hook>>

\* The Promise.all of the i-th measure() call in flight rejects.
Reject(i) ==
    /\ i \in DOMAIN view.inflight
    /\ LET m == view.inflight[i]
           v == [view EXCEPT !.inflight = RemoveAt(@, i)]
       IN view' = rejected(Step(v, "reject", m.cancelled), m)
    /\ UNCHANGED <<registryVars, content, shared, hook>>

\* ----------------------------------------------------------- specifications
InitRegistry ==
    /\ elements = [i \in Ids |-> <<>>]
    /\ ctl = InitialController
    /\ lastOp = NoOp
    /\ before = <<>>
    /\ rtBefore = <<>>
    /\ delivered = Quiet.delivered
    /\ order = <<>>
    /\ opThrew = FALSE
    /\ unsubscribed = {}
    /\ overlay = InitialOverlay

InitCommon ==
    /\ InitRegistry
    /\ view = InitialView
    /\ content = NoContent
    /\ shared = InitialShared
    /\ hook = InitialHook

\* The registry content, without subscribers.
Init == InitCommon /\ subscribers = <<>>

Next ==
    \/ \E id \in Ids, node \in Handles, ts \in Times : RegisterElement(id, node, ts)
    \/ \E id \in Ids, node \in Handles : UnregisterElement(id, node)
    \/ Clear

Spec == Init /\ [][Next]_vars

\* The registry with ordinary subscribers, one of which throws.
NextNotify ==
    \/ \E id \in Ids, node \in NotifyHandles, ts \in NotifyTimes :
          RegisterElement(id, node, ts)
    \/ \E id \in Ids, node \in NotifyHandles : UnregisterElement(id, node)
    \/ Clear
    \/ \E cb \in PlainCallbacks : Subscribe(cb)
    \/ \E cb \in PlainCallbacks : Unsubscribe(cb)

SpecNotify == Init /\ [][NextNotify]_vars

\* The registry with a mounted useSharedTransition(ElementId).
InitController == InitCommon /\ subscribers = <<"ctl">>

NextController ==
    \/ \E node \in Handles, ts \in ControllerTimes :
          MountElement(ElementId, node, ts)
    \/ \E node \in Handles : UnregisterElement(ElementId, node)
    \/ Clear
    \/ Render
    \/ Start
    \/ Reset
    \/ Tick
    \/ AnimFinish
    \/ DeliverCompleted

SpecController == InitController /\ [][NextController]_vars

\* The controller while nodes are registered under its identifier and under
\* another one.
NextTwoIds ==
    \/ \E id \in Ids, node \in NotifyHandles, ts \in ControllerTimes :
          MountElement(id, node, ts)
    \/ \E id \in Ids, node \in NotifyHandles : UnregisterElement(id, node)
    \/ Render
    \/ Start
    \/ Reset
    \/ Tick

SpecTwoIds == InitController /\ [][NextTwoIds]_vars

\* The controller next to a subscriber that calls back into the registry,
\* subscribed before or after the controller's listener.
InitReentrant ==
    InitCommon /\ subscribers \in {<<"drop", "ctl">>, <<"ctl", "drop">>}

SpecReentrant == InitReentrant /\ [][NextController]_vars

\* What a TransitionContent renders, for every pair of layouts, every
\* animation and every position; animation defaults to move.
InitContent ==
    /\ InitRegistry
    /\ subscribers = <<>>
    /\ view = InitialView
    /\ shared = InitialShared
    /\ hook = InitialHook
    /\ content \in {Rendered(impl, "move", s, e, 0) :
                        impl \in Impls, s \in Layouts, e \in Layouts}

NextContent ==
    \/ \E p \in Positions : SetPosition(p)
    \/ \E a \in Animations : SetAnimation(a)

SpecContent == InitContent /\ [][NextContent]_vars

\* The measure effect of a SharedElementTransition.
InitMeasure ==
    /\ InitRegistry
    /\ subscribers = <<>>
    /\ content = NoContent
    /\ shared = InitialShared
    /\ hook = InitialHook
    /\ view \in {[InitialView EXCEPT !.nitro = n, !.turbo = u, !.throws = t] :
                     n \in BOOLEAN, u \in BOOLEAN, t \in BOOLEAN}

NextMeasure ==
    \/ \E s, e \in MeasureNodes \cup {NoNode} : Mount(s, e)
    \/ \E s, e \in MeasureNodes \cup {NoNode} : ChangeNodes(s, e)
    \/ \E t \in BOOLEAN : ChangeOnMeasure(t)
    \/ Unmount
    \/ \E i \in 1..MaxInFlight : Resolve(i)
    \/ \E i \in 1..MaxInFlight : Reject(i)

SpecMeasure == InitMeasure /\ [][NextMeasure]_vars

\* A screen that uses useSharedTransition(ElementId) and renders a
\* SharedElementTransition over the nodes registered under ElementId.
InitScreen == InitCommon /\ subscribers = <<"ctl">>

NextScreen ==
    \/ \E node \in MeasureNodes, ts \in ControllerTimes :
          MountElement(ElementId, node, ts)
    \/ \E node \in MeasureNodes : UnregisterElement(ElementId, node)
    \/ Render
    \/ Start
    \/ Reset
    \/ ShowTransition
    \/ Unmount
    \/ \E i \in 1..MaxInFlight : Resolve(i)

SpecScreen == InitScreen /\ [][NextScreen]_vars

\* SharedElement instances that mount, unmount and change their props.
NextElements ==
    \/ \E c \in Instances, id \in Ids, ts \in Times : ElementMount(c, id, ts)
    \/ \E c \in Instances : ElementUnmount(c)
    \/ \E c \in Instances, id \in Ids : ElementChangeId(c, id)
    \/ \E c \in Instances : ElementChangeOnNode(c)
    \/ \E c \in Instances, ts \in Times : ElementCommit(c, ts)

SpecElements == Init /\ [][NextElements]_vars

\* useSharedTransition(id, config), mounted with either value of
\* config.disabled, with and without the native module.
InitDisabled ==
    /\ InitRegistry
    /\ subscribers = <<>>
    /\ view = InitialView
    /\ content = NoContent
    /\ shared = InitialShared
    /\ hook \in {HookOf(d, n) : d \in BOOLEAN, n \in BOOLEAN}

NextDisabled ==
    \/ \E id \in Ids, ts \in HookTimes : HookRegister(id, ts)
    \/ \E id \in Ids, ts \in HookTimes : HookUnregister(id, ts)
    \/ HookSettle
    \/ HookStart
    \/ HookReset
    \/ HookTick
    \/ HookFinish
    \/ HookDeliver
    \/ \E b \in BOOLEAN : HookSetDisabled(b)

SpecDisabled == InitDisabled /\ [][NextDisabled]_vars

\* SharedElement instances that mount, unmount and render again, with one
\* callback subscribed to the registry.
InitRerender == InitCommon /\ subscribers = <<"ok">>

NextRerender ==
    \/ \E c \in Instances, id \in Ids, ts \in Times : ElementMount(c, id, ts)
    \/ \E c \in Instances : ElementUnmount(c)
    \/ \E c \in Instances, ts \in Times : ElementRerender(c, ts)

SpecRerender == InitRerender /\ [][NextRerender]_vars

\* SharedElement components that mount and unmount before and after the
\* component that calls useSharedTransition(ElementId) mounts. React
\* commits a pending state, Reanimated runs the frames of an animation and
\* its callback, and the JS thread runs what runOnJS posted.
InitLate == InitCommon /\ subscribers = <<>>

NextLate ==
    \/ \E node \in Handles, ts \in ControllerTimes :
          MountElement(ElementId, node, ts)
    \/ \E node \in Handles : UnregisterElement(ElementId, node)
    \/ MountController
    \/ Render
    \/ Tick
    \/ AnimFinish
    \/ DeliverCompleted

SpecLate ==
    /\ InitLate
    /\ [][NextLate]_vars
    /\ WF_vars(Render)
    /\ WF_vars(Tick)
    /\ WF_vars(AnimFinish)
    /\ WF_vars(DeliverCompleted)

\* A mounted SharedTransitionOverlay and SharedElement components that
\* mount and unmount under both identifiers.
InitOverlay == InitCommon /\ subscribers = <<"overlay">>

NextOverlay ==
    \/ \E id \in Ids, node \in NotifyHandles, ts \in ControllerTimes :
          MountElement(id, node, ts)
    \/ \E id \in Ids, node \in NotifyHandles : UnregisterElement(id, node)
    \/ OverlayTick
    \/ OverlayFinish
    \/ \E id \in Ids : OverlayCleanup(id)

SpecOverlay == InitOverlay /\ [][NextOverlay]_vars

\* Timestamp-keyed SharedElement components that mount and unmount, next
\* to a useSharedTransition(ElementId).
NextTimed ==
    \/ \E c \in Instances, id \in Ids, t1, t2 \in HookTimes :
          TimedMount(c, id, t1, t2)
    \/ \E c \in Instances : TimedUnmount(c)
    \/ HookSettle
    \/ HookReset

SpecTimed == InitDisabled /\ [][NextTimed]_vars

\* ------------------------------------------------------------------ claims
RegistrationOrder(els, id) == [i \in 1..Len(els[id]) |-> els[id][i].node]

NoteFor(id) == [id |-> id, nodes |-> getNodes(elements, id)]

\* Every registered node is registered once, as the nodes of mounted
\* SharedElement components are.
NoDoubleRegistration(els) ==
    \A id \in Ids : \A i, j \in 1..Len(els[id]) :
        i # j => els[id][i].node # els[id][j].node

AllSubscribersGot(note) ==
    \A cb \in Callbacks : InSeq(subscribers, cb) => delivered[cb] = note

\* C1: for every identifier, getTransitionPair is null exactly when the
\* identifier has fewer than 2 registrations, and otherwise pairs the first
\* and the last entry of getNodes, whatever lies between them.
C1_PairIsFirstAndLastNode ==
    \A id \in Ids :
        LET nodes == getNodes(elements, id)
            pair == getTransitionPair(elements, id)
        IN /\ Len(nodes) = Len(elements[id])
           /\ (pair = Null) <=> (Len(nodes) < 2)
           /\ Len(nodes) >= 2 =>
                  pair = [start |-> nodes[1], end |-> nodes[Len(nodes)]]

\* Three registrations of one identifier: the middle one is in no pair.
C1_Witness ==
    \E id \in Ids :
        LET nodes == getNodes(elements, id)
            pair == getTransitionPair(elements, id)
        IN /\ Len(nodes) = 3
           /\ pair = [start |-> nodes[1], end |-> nodes[3]]
           /\ nodes[2] # nodes[1]
           /\ nodes[2] # nodes[3]

\* C2: unregisterElement(I, h) removes only registrations of handle h: the
\* registrations of I with another handle stay in getNodes(I) in the same
\* order, and the other identifiers keep their registrations.
C2_UnregisterRemovesOnlyHandle ==
    [][lastOp'.op = "unregister" =>
         \A id \in Ids :
             getNodes(elements', id) =
                 IF id = lastOp'.id
                 THEN Without(getNodes(elements, id), lastOp'.node)
                 ELSE getNodes(elements, id)]_vars

\* An unregisterElement removed one registration, another registration of
\* the same identifier stayed, and another identifier holds registrations.
C2_Witness ==
    /\ lastOp.op = "unregister"
    /\ lastOp.removed = 1
    /\ Len(elements[lastOp.id]) >= 1
    /\ \E id \in Ids : id # lastOp.id /\ elements[id] # <<>>

\* C3: getNodes(I) lists the registered handles of I in the order in which
\* the registrations were made, whatever timestamps they obtained.
C3_NodesInRegistrationOrder ==
    \A id \in Ids : getNodes(elements, id) = RegistrationOrder(elements, id)

\* C4: registerElement(I, h) directly followed by unregisterElement(I, h)
\* leaves getNodes(I) and getTransitionPair(I) as they were before the two
\* calls.
C4_RegisterUnregisterRoundTrip ==
    (lastOp.op = "unregister" /\ lastOp.rt) =>
        /\ getNodes(elements, lastOp.id) = rtBefore
        /\ getTransitionPair(elements, lastOp.id) =
               IF Len(rtBefore) < 2 THEN Null
               ELSE [start |-> rtBefore[1], end |-> rtBefore[Len(rtBefore)]]

\* C5: when registerElement(I, h) leaves I with 2 or more registrations,
\* every subscribed callback has been invoked with (I, getNodes(I)) as it is
\* after the insertion.
C5_RegisterNotifiesEverySubscriber ==
    (lastOp.op = "register" /\ Len(elements[lastOp.id]) >= 2) =>
        AllSubscribersGot(NoteFor(lastOp.id))

C5_Witness ==
    /\ lastOp.op = "register"
    /\ Len(elements[lastOp.id]) >= 2
    /\ Len(subscribers) = 2
    /\ delivered["ok"] = NoteFor(lastOp.id)
    /\ Len(delivered["ok"].nodes) >= 2

\* C6 as stated: whenever unregisterElement(I, h) leaves I with 1 or 0
\* registrations, every subscribed callback has been invoked with (I, the
\* reduced list).
C6_UnregisterAlwaysNotifies ==
    (lastOp.op = "unregister" /\ Len(elements[lastOp.id]) <= 1) =>
        AllSubscribersGot(NoteFor(lastOp.id))

\* C6 amended: whenever unregisterElement(I, h) is called while I has at
\* least one registration and leaves I with 1 or 0 registrations, every
\* subscribed callback has been invoked with (I, the reduced list).
C6_UnregisterNotifiesWhenRegistered ==
    (/\ lastOp.op = "unregister"
     /\ Len(elements[lastOp.id]) <= 1
     /\ Len(elements[lastOp.id]) + lastOp.removed >= 1) =>
        AllSubscribersGot(NoteFor(lastOp.id))

\* The last registration of an identifier was removed with two subscribers.
C6_Witness ==
    /\ lastOp.op = "unregister"
    /\ lastOp.removed = 1
    /\ elements[lastOp.id] = <<>>
    /\ Len(subscribers) = 2
    /\ delivered["ok"] = NoteFor(lastOp.id)

\* C7: when a subscriber throws during a notification, every subscriber is
\* still invoked, the registerElement / unregisterElement call returns
\* normally, and the registry holds what the call stores.
C7_ThrowingSubscriberIsIsolated ==
    (/\ lastOp.op \in {"register", "unregister"}
     /\ InSeq(subscribers, "bad")
     /\ (lastOp.op = "unregister" =>
             Len(elements[lastOp.id]) + lastOp.removed >= 1)) =>
        /\ ~opThrew
        /\ AllSubscribersGot(NoteFor(lastOp.id))
        /\ lastOp.op = "register" =>
               /\ Len(elements[lastOp.id]) = Len(before) + 1
               /\ elements[lastOp.id][Len(elements[lastOp.id])].node = lastOp.node
        /\ lastOp.op = "unregister" =>
               ~InSeq(getNodes(elements, lastOp.id), lastOp.node)

\* The throwing callback was subscribed first, the ordinary one after it.
C7_Witness ==
    /\ lastOp.op \in {"register", "unregister"}
    /\ subscribers = <<"bad", "ok">>
    /\ delivered["bad"] = NoteFor(lastOp.id)
    /\ delivered["ok"] = NoteFor(lastOp.id)
    /\ ~opThrew

\* C8: once the controller's state is completed or error, only reset()
\* changes it, and reset() leads to idle (stated for registries in which
\* every node is registered once).
C8_TerminalUntilReset ==
    [][(/\ ctl.state \in {"completed", "error"}
        /\ NoDoubleRegistration(elements)) =>
          \/ ctl'.state = ctl.state
          \/ lastOp'.op = "reset" /\ ctl'.state = "idle"]_vars

\* C9: a controller that is idle, in its last render too, and is notified
\* of 2 or more nodes under its own identifier starts running (stated for
\* registries in which every node is registered once).
C9_IdleControllerAutoStarts ==
    [][(/\ ctl.state = "idle"
        /\ ctl.rstate = "idle"
        /\ NoDoubleRegistration(elements')
        /\ delivered'["ctl"] # NoNote
        /\ delivered'["ctl"].id = ElementId
        /\ Len(delivered'["ctl"].nodes) >= 2) =>
          ctl'.state = "running"]_vars

\* C10: when the start or the end registration of a running controller's
\* pair is unregistered, the state becomes completed and progress 1 in that
\* same call (stated for registries in which every node is registered
\* once).
C10_LosingPairSideCompletes ==
    [][(/\ ctl.state = "running"
        /\ NoDoubleRegistration(elements)
        /\ lastOp'.op = "unregister"
        /\ lastOp'.id = ElementId
        /\ lastOp'.removed >= 1
        /\ LET pair == getTransitionPair(elements, ElementId)
           IN pair # Null /\ lastOp'.node \in {pair.start, pair.end}) =>
          /\ ctl'.state = "completed"
          /\ ctl'.progress = ProgressOne]_vars

\* The condition reset() leaves the controller in.
ResetCondition(c) ==
    /\ c.state = "idle"
    /\ c.progress = 0
    /\ ~c.autoStarted
    /\ ~c.error

\* C11: start() called while the identifier has 0 or 1 registrations and the
\* controller is not running ends in state error with the error value set,
\* starts no animation and moves no progress, and a reset() called next
\* gives idle, progress 0 and no error.
C11_StartWithoutPairEndsInError ==
    [][(/\ lastOp'.op = "start"
        /\ Len(elements[ElementId]) < 2
        /\ ctl.state # "running") =>
           /\ ctl'.state = "error"
           /\ ctl'.error
           /\ ctl'.anim = ctl.anim
           /\ ctl'.animFrom = ctl.animFrom
           /\ ctl'.progress = ctl.progress
           /\ ResetCondition(reset(ctl'))]_vars

\* C12: reset() leaves the controller idle with progress 0, the auto-start
\* flag cleared and no error, and a controller in that condition stays in
\* it through every step that is neither a start() nor a registry
\* notification.
C12_ResetConditionStays ==
    [][/\ lastOp'.op = "reset" => ResetCondition(ctl')
       /\ (ResetCondition(ctl) /\ lastOp'.op \notin {"start", "register", "unregister"})
              => ResetCondition(ctl')]_vars

\* C13: start() called while the state is running and the animation is in
\* flight changes nothing: the state stays running, the animation in flight
\* stays the one that was started, and progress and error stay as they are,
\* whether or not the render that publishes running has been committed.
C13_StartWhileRunningIsNoOp ==
    [][(lastOp'.op = "start" /\ ctl.state = "running" /\ ctl.anim) =>
           /\ ctl'.state = "running"
           /\ ctl'.anim
           /\ ctl'.animFrom = ctl.animFrom
           /\ ctl'.progress = ctl.progress
           /\ ctl'.error = ctl.error]_vars

\* C14: a notification for the controller's identifier that carries 2 or
\* more nodes and reaches a running controller changes nothing of it; a
\* notification with 2 or more nodes that does change the controller finds
\* the auto-start flag cleared and sets it, and only reset() clears the
\* flag, so two auto-starts are separated by a reset().
C14_RunningIgnoresPairNotifications ==
    [][/\ (/\ delivered'["ctl"].id = ElementId
           /\ Len(delivered'["ctl"].nodes) >= 2
           /\ ctl.state \in {"preparing", "running"}) => ctl' = ctl
       /\ (/\ delivered'["ctl"].id = ElementId
           /\ Len(delivered'["ctl"].nodes) >= 2
           /\ ctl' # ctl) => (~ctl.autoStarted /\ ctl'.autoStarted)
       /\ (ctl.autoStarted /\ ~ctl'.autoStarted) => lastOp'.op = "reset"]_vars

\* A third node was registered under the controller's identifier while its
\* animation was under way.
C14_Witness ==
    /\ lastOp.op = "register"
    /\ lastOp.id = ElementId
    /\ delivered["ctl"].id = ElementId
    /\ Len(delivered["ctl"].nodes) = 3
    /\ ctl.state = "running"
    /\ ctl.anim
    /\ ctl.progress > 0

\* C15: the state error is entered by a manual start() only: no registry
\* notification takes the controller into error, also when a subscriber
\* called earlier in the same notification has unregistered one side of
\* the pair.
C15_OnlyManualStartErrs ==
    [][(ctl.state # "error" /\ ctl'.state = "error") => lastOp'.op = "start"]_vars

Components == {"x", "y", "width", "height"}

\* C16: in the Reanimated TransitionContent, for every pair of layouts and
\* every position p of 0 to 1, each component of the frame is
\* start + p * (end - start): the start layout at 0, the end layout at 1.
C16_FrameIsLinearInProgress ==
    (content.impl = "reanimated" /\ content.position \in 0..Scale) =>
        \A f \in Components :
            content.frame[f] =
                Scale * content.startLayout[f]
                + content.position * (content.endLayout[f] - content.startLayout[f])

\* C17: at every position p, also below 0 and above 1, the frame and the
\* two opacities are the ones the component gives at clamp01(p).
C17_RendersAtClampedPosition ==
    LET q == clamp(content.position)
    IN /\ content.frame = containerStyle(content.impl, q, content.startLayout,
                                         content.endLayout)
       /\ content.startOpacity = startOpacity(content.impl, content.animation, q)
       /\ content.endOpacity = endOpacity(content.impl, content.animation, q)

\* C18: with animation fade, at every position p of 0 to 1 the opacity of
\* the start layer is 1 - p, the opacity of the end layer is p, and the
\* two add up to 1.
C18_FadeOpacitiesAreComplementary ==
    (content.animation = "fade" /\ content.position \in 0..Scale) =>
        /\ content.layers = {"start", "end"}
        /\ content.startOpacity = Scale - content.position
        /\ content.endOpacity = content.position
        /\ content.startOpacity + content.endOpacity = Scale

\* C19: with animation fade-in, the start layer is not rendered and its
\* opacity is 0, and at every position p of 0 to 1, 1 included, the opacity
\* of the end layer is p.
C19_FadeInEndOpacityIsProgress ==
    (content.animation = "fade-in" /\ content.position \in 0..Scale) =>
        /\ "start" \notin content.layers
        /\ content.startOpacity = 0
        /\ content.endOpacity = content.position

\* C20: when the result of a measure() call, a success or a failure, arrives
\* after its effect was cleaned up, measureData, isMeasuring and error stay
\* as they are, onMeasure is not called and no node is hidden.
C20_CancelledResultIsDiscarded ==
    [][(view'.last.op \in {"resolve", "reject"} /\ view'.last.cancelled) =>
           /\ view'.measureData = view.measureData
           /\ view'.isMeasuring = view.isMeasuring
           /\ view'.error = view.error
           /\ view'.onMeasure = "-"
           /\ view'.hidden = view.hidden]_vars

\* The measurements of a cleaned-up effect resolved while the component was
\* mounted with other nodes and an onMeasure that does not throw.
C20_Witness ==
    /\ view.last = [op |-> "resolve", cancelled |-> TRUE]
    /\ view.mounted
    /\ ~view.throws
    /\ view.moduleType \in {"nitro", "turbo"}

\* C21: once a SharedElementTransition is unmounted or has recorded an
\* error, no node it hid is still hidden, whatever the order of measurement
\* results, throwing onMeasure props, endpoint changes and the unmount.
C21_NothingHiddenAfterEnd ==
    (~view.mounted \/ view.error) => view.hidden = {}

\* The component measured its two nodes, hid them, and was unmounted.
C21_Witness ==
    /\ view.last.op = "unmount"
    /\ view.measureData # NoData
    /\ ~view.throws
    /\ view.hidden = {}

\* C23: once a SharedElementTransition that obtained snapshots is
\* unmounted, the bridge's cleanup() has been called exactly once for it.
C23_SnapshotsReleasedOnce ==
    (~view.mounted /\ view.obtained) => view.cleanups = 1

\* C22: when reset() of the controller returns, no node is hidden.
C22_ResetShowsHiddenNodes ==
    [][(lastOp'.op = "reset" /\ view' = view) => view'.hidden = {}]_vars

\* C25: once the first bridge call has set moduleType, every later bridge
\* call leaves it as it is and loads no module; the value is nitro, turbo
\* or none.
C25_ProbeRunsOnce ==
    [][/\ view.moduleType # "null" =>
              (view'.moduleType = view.moduleType /\ view'.loads = view.loads)
       /\ view'.moduleType # view.moduleType =>
              view'.moduleType \in {"nitro", "turbo", "none"}]_vars

\* The probe found no module, measure() recorded the error, and the cleanup
\* of the unmount called setNodeHidden.
C25_Witness ==
    /\ view.moduleType = "none"
    /\ view.error
    /\ view.last.op = "unmount"

\* C26: within a registry call, every callback is told of the mutations in
\* the order they were made: it is never told of an earlier mutation after
\* it was told of a later one, also when the later mutation was made by a
\* callback while it was being told of the earlier one.
C26_NotifiedInMutationOrder ==
    \A i, j \in 1..Len(order) :
        (i < j /\ order[i].cb = order[j].cb) => order[i].m <= order[j].m

\* C27: a registerElement or unregisterElement for an identifier other than
\* the controller's, and the notification it sends, leave the state, the
\* progress and the error of the controller as they are.
C27_OtherIdentifierLeavesController ==
    [][(lastOp'.op \in {"register", "unregister"} /\ lastOp'.id # ElementId) =>
           /\ ctl'.state = ctl.state
           /\ ctl'.progress = ctl.progress
           /\ ctl'.error = ctl.error]_vars

\* A node was registered under another identifier while the controller's
\* animation was under way and the render had published running.
C27_Witness ==
    /\ lastOp.op = "register"
    /\ lastOp.id # ElementId
    /\ delivered["ctl"].id = lastOp.id
    /\ ctl.state = "running"
    /\ ctl.rstate = "running"
    /\ ctl.progress > 0

\* C28: in every reachable state, state = completed implies progress = 1.
C28_CompletedMeansProgressOne ==
    ctl.state = "completed" => ctl.progress = ProgressOne

\* C29: while the controller is running, the progress it returned to its
\* consumer is the current value of progress.
C29_ExposedProgressIsCurrent ==
    (ctl.rstate = "running" /\ ctl.state = "running") =>
        ctl.rprogress = ctl.progress

Occurrences(s, e) == Cardinality({k \in 1..Len(s) : s[k] = e})

\* C24: while a SharedElement is mounted with id I, getNodes(I) holds its
\* node exactly once; after it has unmounted or its id has changed,
\* getNodes of the id it had does not hold the node it had, whatever the
\* other SharedElement instances do under the same or other ids.
C24_MountedNodeRegisteredOnce ==
    \A c \in Instances :
        LET i == shared.inst[c]
        IN /\ i.phase = "mounted" =>
                  Occurrences(getNodes(elements, i.id), i.node) = 1
           /\ i.prevNode # "-" =>
                  ~InSeq(getNodes(elements, i.prevId), i.prevNode)

\* One instance is mounted under the id that the other instance has just
\* left, by unmounting or by a change of its id.
C24_Witness ==
    \E c, d \in Instances :
        /\ c # d
        /\ shared.inst[c].phase = "mounted"
        /\ shared.inst[d].prevId = shared.inst[c].id
        /\ lastOp.op = "unregister"
        /\ lastOp.node = shared.inst[d].prevNode

\* C30: a useSharedTransition(id, config) that has had config.disabled =
\* true at every render stays idle with progress 0, whatever is registered
\* with its registry and however often start() is called.
C30_DisabledStaysIdle ==
    hook.alwaysDisabled =>
        /\ hook.state = "idle"
        /\ hook.progress = 0
        /\ ~hook.anim
        /\ hook.awaiting = 0

\* start() has just been called on a disabled hook whose identifier has a
\* transition pair in the registry.
C30_Witness ==
    /\ hook.alwaysDisabled
    /\ Len(hook.entries[ElementId]) >= 2
    /\ hook.last = "start"

\* C31: a mounted SharedElementTransition renders no overlay while an
\* endpoint node is missing, while the measurement of its current nodes is
\* in flight, or after the measurement has failed.
C31_NoOverlayWithoutGeometry ==
    (/\ view.mounted
     /\ \/ view.startNode = NoNode
        \/ view.endNode = NoNode
        \/ Measuring(view)
        \/ view.error)
    => ~rendersOverlay(view)

\* C32: clear() leaves getNodes empty and getTransitionPair null for every
\* identifier, invokes no subscriber and leaves the subscriber set as it
\* was; the registerElement that follows it notifies every callback that
\* was subscribed before clear().
C32_ClearDropsAllSilently ==
    [][/\ lastOp'.op = "clear" =>
             /\ \A id \in Ids :
                    /\ getNodes(elements', id) = <<>>
                    /\ getTransitionPair(elements', id) = Null
             /\ subscribers' = subscribers
             /\ delivered' = Quiet.delivered
             /\ ~opThrew'
       /\ (lastOp.op = "clear" /\ lastOp'.op = "register") =>
             \A i \in 1..Len(subscribers) :
                 delivered'[subscribers[i]] =
                     [id |-> lastOp'.id, nodes |-> getNodes(elements', lastOp'.id)]
      ]_vars

\* clear() has just dropped a transition pair while two callbacks were
\* subscribed.
C32_Witness ==
    /\ lastOp.op = "clear"
    /\ lastOp.removed >= 2
    /\ Len(subscribers) = 2

\* C33: a callback whose unsubscribe function has been called is invoked by
\* no later registerElement or unregisterElement, while every callback that
\* is subscribed is notified by them.
C33_UnsubscribedIsNotInvoked ==
    (/\ lastOp.op \in {"register", "unregister"}
     /\ lastOp.op = "unregister" =>
            Len(elements[lastOp.id]) + lastOp.removed >= 1) =>
        /\ \A cb \in unsubscribed : delivered[cb] = NoNote
        /\ AllSubscribersGot(NoteFor(lastOp.id))

\* "ok" has unsubscribed, and the registerElement made after that has told
\* the callback that is still subscribed.
C33_Witness ==
    /\ lastOp.op = "register"
    /\ "ok" \in unsubscribed
    /\ subscribers = <<"bad">>
    /\ delivered["bad"] = NoteFor(lastOp.id)
    /\ delivered["ok"] = NoNote

\* C34: the registry holds, for every identifier, exactly the entries of
\* the SharedElement components mounted under it: the entry of a component
\* that has unmounted is gone and the entries of the others are kept,
\* whatever the clock read at render and at registration.
C34_EntriesAreTheMountedElements ==
    \A id \in Ids, t \in HookTimes :
        Occurrences(hook.entries[id], t) =
            Cardinality({c \in Instances :
                            /\ hook.mounted[c].id = id
                            /\ hook.mounted[c].registeredAt = t})

\* C35: while a prepareTransition call of the listener is in flight, a
\* further notification for the identifier launches no second one.
C35_OnePreparationInFlight == hook.awaiting <= 1

\* C36: a prepareTransition that settles right after reset(), after the
\* listener was unsubscribed, or while the identifier has lost its pair, is
\* discarded: the listener does not go on to start().
C36_LatePreparationIsDiscarded ==
    [][(/\ hook'.last = "settle"
        /\ \/ hook.last = "reset"
           \/ ~hook.subscribed
           \/ Len(hook.entries[ElementId]) < 2) =>
          hook' = [hook EXCEPT !.awaiting = @ - 1, !.last = "settle"]]_vars

\* The identifiers whose cleanupTransition is still to come: the one of
\* the running animation and those posted to the JS thread.
CleanupScheduled(o) == (IF o.anim = "-" THEN {} ELSE {o.anim}) \cup o.pending

\* C37: when the overlay starts the transition of an identifier while the
\* transition of another one is animating, the progress of the other one
\* is not set back and its cleanupTransition is still to come.
C37_ConcurrentTransitionsIndependent ==
    [][\A a, b \in Ids :
          (/\ a # b
           /\ overlay.anim = a
           /\ b \notin overlay.active
           /\ b \in overlay'.active) =>
              /\ overlay'.progress >= overlay.progress
              /\ a \in CleanupScheduled(overlay')]_vars

\* C38: a controller that subscribes while its identifier has 2 or more
\* registrations leaves idle, unless a registerElement or an
\* unregisterElement comes first.
C38_LateSubscriberAutoStarts ==
    (lastOp.op = "mountController" /\ Len(elements[ElementId]) >= 2)
        ~> (ctl.state # "idle" \/ lastOp.op \in {"register", "unregister"})

\* C39: a mounted SharedElement that renders again with the same id leaves
\* getNodes(id), and so the position of its node and the start/end pick,
\* as they were, and no subscriber is invoked.
C39_RerenderLeavesRegistry ==
    lastOp.op = "rerender" =>
        /\ getNodes(elements, lastOp.id) = before
        /\ order = <<>>

====
